---- MODULE Spec2Model ----
(***************************************************************************)
(* Citation-Decoder: the PDFParser text heuristics (src/pdf_parser.py),    *)
(* the CitationAnalyzer batch loop (src/citation_analyzer.py) and the      *)
(* CitationDecoder orchestration (src/src/main.py).                        *)
(*                                                                         *)
(* A document text is a sequence of one-character strings.  Offsets are    *)
(* Python offsets: offset p is the number of characters before it, so the  *)
(* character at offset p is text[p + 1] and the slice text[a:b] is         *)
(* SubSeq(text, a + 1, b).                                                 *)
(***************************************************************************)
EXTENDS Integers, Sequences, FiniteSets, TLC

(***************************************************************************)
(* Character classes of Python's re module, restricted to ASCII.           *)
(***************************************************************************)
LowerSeq ==
  <<"a", "b", "c", "d", "e", "f", "g", "h", "i", "j", "k", "l", "m",
    "n", "o", "p", "q", "r", "s", "t", "u", "v", "w", "x", "y", "z">>

UpperSeq ==
  <<"A", "B", "C", "D", "E", "F", "G", "H", "I", "J", "K", "L", "M",
    "N", "O", "P", "Q", "R", "S", "T", "U", "V", "W", "X", "Y", "Z">>

Lower == {LowerSeq[i] : i \in 1..26}

Upper == {UpperSeq[i] : i \in 1..26}

Digits == {"0", "1", "2", "3", "4", "5", "6", "7", "8", "9"}

\* \s
Whitespace == {" ", "\t", "\n", "\r", "\f"}

\* [A-Za-z\-]
NameChars == Lower \cup Upper \cup {"-"}

\* the two cases of a letter under re.IGNORECASE, the character itself otherwise
BothCases(c) ==
  IF \E i \in 1..26 : c = LowerSeq[i] \/ c = UpperSeq[i]
  THEN LET i == CHOOSE k \in 1..26 : c = LowerSeq[k] \/ c = UpperSeq[k]
       IN {LowerSeq[i], UpperSeq[i]}
  ELSE {c}

(***************************************************************************)
(* Regular expressions as syntax trees.                                    *)
(***************************************************************************)
Chr(S) == [op |-> "chr", set |-> S, subs |-> <<>>]

Cat(rs) == [op |-> "cat", set |-> {}, subs |-> rs]

Alt(rs) == [op |-> "alt", set |-> {}, subs |-> rs]

Opt(r) == [op |-> "opt", set |-> {}, subs |-> <<r>>]

Star(r) == [op |-> "star", set |-> {}, subs |-> <<r>>]

Plus(r) == [op |-> "plus", set |-> {}, subs |-> <<r>>]

\* a literal word, case-sensitive
Lit(w) == Cat(<<>> \o [i \in 1..Len(w) |-> Chr({w[i]})])

\* the character classes of a whole pattern widened by re.IGNORECASE
RECURSIVE IgnoreCase(_)
IgnoreCase(r) ==
  [op |-> r.op,
   set |-> UNION {BothCases(c) : c \in r.set},
   subs |-> <<>> \o [i \in 1..Len(r.subs) |-> IgnoreCase(r.subs[i])]]

(***************************************************************************)
(* The backtracking matcher.  Ends(r, s, p) is the sequence of offsets at  *)
(* which a match of r that starts at offset p can end, in the order in     *)
(* which the backtracking engine tries them (greedy quantifiers first,     *)
(* alternatives left to right).  Its head is the end of the match the      *)
(* engine reports.  An offset is listed once, at its first position: what  *)
(* follows an offset depends on the offset only.                           *)
(***************************************************************************)
Min(S) == CHOOSE x \in S : \A y \in S : x <= y

Max(S) == CHOOSE x \in S : \A y \in S : x >= y

\* hits is a set of <<i, k, v>>: offset v is tried k-th in the i-th of a
\* series of attempts.  The offsets in the order they are first tried.
InOrder(hits) ==
  LET Earlier(g, h) == g[1] < h[1] \/ (g[1] = h[1] /\ g[2] < h[2])
      first == {h \in hits : \A g \in hits : g[3] = h[3] => ~Earlier(g, h)}
      ranked == {<<Cardinality({g \in first : Earlier(g, h)}) + 1, h[3]>> :
                   h \in first}
  IN <<>> \o [n \in 1..Cardinality(first) |->
               (CHOOSE x \in ranked : x[1] = n)[2]]

\* the places of a sequence of offsets, as the i-th attempt
Places(i, e) == {<<i, k, e[k]>> : k \in 1..Len(e)}

\* the length of the longest run of characters of S that starts at offset p
RunLength(S, s, p) ==
  LET stop == {q \in p..Len(s) : q = Len(s) \/ s[q + 1] \notin S}
  IN Min(stop) - p

\* the elements of a sequence
Range(f) == {f[i] : i \in 1..Len(f)}

\* A quantified character class gives up one character at a time, from its
\* longest run down.  Any other quantified pattern x is greedy: from offset
\* a, it first tries one more match of x (and whatever follows it), then
\* stops at a.  Reach is the set of offsets where repetitions of x can stop;
\* StarTable gives for each of them, from the last back to the first, the
\* order in which the repetition tries its ends from there.
RECURSIVE Ends(_, _, _), FlatEnds(_, _, _), CatEnds(_, _, _), AltEnds(_, _, _),
          Reach(_, _, _), StarTable(_, _, _, _)
Ends(r, s, p) ==
  CASE r.op = "chr" ->
         IF p < Len(s) /\ s[p + 1] \in r.set THEN <<p + 1>> ELSE <<>>
    [] r.op = "cat" -> CatEnds(r.subs, s, <<p>>)
    [] r.op = "alt" -> AltEnds(r.subs, s, p)
    [] r.op = "opt" ->
         InOrder(UNION {Places(1, e) : e \in {Ends(r.subs[1], s, p)}}
                 \cup {<<2, 1, p>>})
    [] r.op = "star" ->
         IF r.subs[1].op = "chr"
         THEN LET n == RunLength(r.subs[1].set, s, p)
              IN <<>> \o [i \in 1..(n + 1) |-> p + n + 1 - i]
         ELSE StarTable(r.subs[1], s, Reach(r.subs[1], s, {p}), <<>>)[p]
    [] r.op = "plus" ->
         IF r.subs[1].op = "chr"
         THEN LET n == RunLength(r.subs[1].set, s, p)
              IN <<>> \o [i \in 1..n |-> p + n + 1 - i]
         ELSE FlatEnds(Star(r.subs[1]), s, Ends(r.subs[1], s, p))

Reach(x, s, S) ==
  LET more == S \cup UNION {{q \in Range(Ends(x, s, a)) : q > a} : a \in S}
  IN IF more = S THEN S ELSE Reach(x, s, more)

StarTable(x, s, reach, table) ==
  IF DOMAIN table = reach THEN table
  ELSE LET a == Max(reach \ DOMAIN table)
           once == SelectSeq(Ends(x, s, a), LAMBDA q : q > a)
           ends == InOrder(UNION {Places(i, table[once[i]]) :
                                    i \in 1..Len(once)}
                           \cup {<<Len(once) + 1, 1, a>>})
       IN StarTable(x, s, reach, (a :> ends) @@ table)

\* r tried from each offset of ps in turn
FlatEnds(r, s, ps) ==
  IF Len(ps) = 1 THEN Ends(r, s, ps[1])
  ELSE InOrder(UNION {UNION {Places(i, e) : e \in {Ends(r, s, ps[i])}} :
                        i \in 1..Len(ps)})

\* the patterns of rs one after the other, the first from the offsets ps
CatEnds(rs, s, ps) ==
  IF rs = <<>> \/ ps = <<>> THEN ps
  ELSE CatEnds(Tail(rs), s, FlatEnds(Head(rs), s, ps))

\* the patterns of rs as alternatives, tried left to right
AltEnds(rs, s, p) ==
  InOrder(UNION {UNION {Places(i, e) : e \in {Ends(rs[i], s, p)}} :
                   i \in 1..Len(rs)})

\* the offsets at which some match of r starts
MatchStarts(r, s) == {q \in 0..Len(s) : Ends(r, s, q) # <<>>}

\* the leftmost match at or after offset p, then the next one after its end
\* (no pattern of the program matches the empty string)
RECURSIVE Scan(_, _, _, _)
Scan(r, s, starts, p) ==
  LET later == {q \in starts : q >= p}
  IN IF later = {} THEN <<>>
     ELSE LET a == Min(later)
              b == Head(Ends(r, s, a))
          IN <<[start |-> a, end |-> b]>> \o Scan(r, s, starts, b)

\* re.finditer(pattern, text): the non-overlapping matches, left to right
finditer(r, s) == Scan(r, s, MatchStarts(r, s), 0)

\* text[a:b] for 0 <= a <= b <= len(text)
Slice(s, a, b) == SubSeq(s, a + 1, b)

\* re.split(pattern, text) for a pattern without capturing groups
RECURSIVE Pieces(_, _, _)
Pieces(s, ms, from) ==
  IF ms = <<>> THEN <<Slice(s, from, Len(s))>>
  ELSE <<Slice(s, from, Head(ms).start)>> \o Pieces(s, Tail(ms), Head(ms).end)

split(r, s) == Pieces(s, finditer(r, s), 0)

\* str.strip()
strip(s) ==
  LET keep == {i \in 1..Len(s) : s[i] \notin Whitespace}
  IN IF keep = {} THEN <<>> ELSE SubSeq(s, Min(keep), Max(keep))

(***************************************************************************)
(* PDFParser.extract_citations (src/pdf_parser.py).                        *)
(***************************************************************************)
WS == Chr(Whitespace)

Digit == Chr(Digits)

\* (?:[A-Za-z\-]+(?:\s+and\s+|\s*,\s*)?)+
AuthorList ==
  Plus(Cat(<<Plus(Chr(NameChars)),
             Opt(Alt(<<Cat(<<Plus(WS), Lit(<<"a", "n", "d">>), Plus(WS)>>),
                       Cat(<<Star(WS), Chr({","}), Star(WS)>>)>>))>>))

\* et\s+al\.
EtAl == Cat(<<Lit(<<"e", "t">>), Plus(WS), Lit(<<"a", "l", ".">>)>>)

\* ,\s*\d{4}(?:[a-z])? : one year only, the group not repeated
Years_OneYear ==
  Cat(<<Chr({","}), Star(WS), Digit, Digit, Digit, Digit, Opt(Chr(Lower))>>)

\* (?:,\s*\d{4}(?:[a-z])?)+
Years ==
  Plus(Cat(<<Chr({","}), Star(WS), Digit, Digit, Digit, Digit,
             Opt(Chr(Lower))>>))

\* \d+(?:-\d+)?
NumberOrRange == Cat(<<Plus(Digit), Opt(Cat(<<Chr({"-"}), Plus(Digit)>>))>>)

\* the six patterns with the last one reduced to \d+ : a number also
\* inside other brackets
citation_patterns_BareNumber ==
  << Cat(<<Chr({"("}), AuthorList, Opt(EtAl), Years, Chr({")"})>>),
     Cat(<<Chr({"("}), AuthorList, Plus(WS), EtAl, Star(WS), Years,
           Chr({")"})>>),
     Cat(<<Chr({"("}), AuthorList, Years, Chr({")"})>>),
     Cat(<<Chr({"["}), NumberOrRange,
           Star(Cat(<<Chr({","}), Star(WS), NumberOrRange>>)),
           Chr({"]"})>>),
     Cat(<<Chr({"["}), Plus(Digit), Chr({"]"})>>),
     Plus(Digit) >>

citation_patterns ==
  << \* \((?:...)+(?:et\s+al\.)?(?:,\s*\d{4}(?:[a-z])?)+\)
     Cat(<<Chr({"("}), AuthorList, Opt(EtAl), Years, Chr({")"})>>),
     \* \((?:...)+\s+(?:et\s+al\.)\s*(?:,\s*\d{4}(?:[a-z])?)+\)
     Cat(<<Chr({"("}), AuthorList, Plus(WS), EtAl, Star(WS), Years,
           Chr({")"})>>),
     \* \((?:...)+(?:,\s*\d{4}(?:[a-z])?)+\)
     Cat(<<Chr({"("}), AuthorList, Years, Chr({")"})>>),
     \* \[(\d+(?:-\d+)?(?:,\s*\d+(?:-\d+)?)*)\]
     Cat(<<Chr({"["}), NumberOrRange,
           Star(Cat(<<Chr({","}), Star(WS), NumberOrRange>>)), Chr({"]"})>>),
     \* \[(\d+)\]
     Cat(<<Chr({"["}), Plus(Digit), Chr({"]"})>>),
     \* \((\d+)\)
     Cat(<<Chr({"("}), Plus(Digit), Chr({")"})>>) >>

\* the context radius: 100 characters before and after the match
W == 100

\* the position check left out: no position counts as seen
SeenBefore_Never(position, seen_positions) == FALSE

\* position in seen_positions
SeenBefore(position, seen_positions) == position \in seen_positions

\* start = match.start() - 100, a negative start counted from the end of the
\* text as a Python slice does
ContextStart_Wrapping(text, m) ==
  IF m.start - W < 0 THEN Max({0, Len(text) + m.start - W}) ELSE m.start - W

\* start = max(0, match.start() - 100)
ContextStart(text, m) == Max({0, m.start - W})

\* end = min(len(self.text), match.end() + 100 + 1)
ContextEnd_OneMore(text, m) == Min({Len(text), m.end + W + 1})

\* end = min(len(self.text), match.end() + 100)
ContextEnd(text, m) == Min({Len(text), m.end + W})

\* the dictionary with the end of the span one too far
CitationRecord_EndOneMore(text, m) ==
  [citation |-> Slice(text, m.start, m.end),
   context |-> Slice(text, ContextStart(text, m), ContextEnd(text, m)),
   position |-> <<m.start, m.end + 1>>]

\* the dictionary appended for a match
CitationRecord(text, m) ==
  [citation |-> Slice(text, m.start, m.end),
   context |-> Slice(text, ContextStart(text, m), ContextEnd(text, m)),
   position |-> <<m.start, m.end>>]

\* the inner loop: the matches ms of pattern number j, in order.  found_by
\* records, next to each appended record, the pattern that appended it.
RECURSIVE MatchLoop(_, _, _, _)
MatchLoop(text, j, ms, acc) ==
  IF ms = <<>> THEN acc
  ELSE LET m == Head(ms)
           position == <<m.start, m.end>>
       IN IF SeenBefore(position, acc.seen_positions)
          THEN MatchLoop(text, j, Tail(ms), acc)
          ELSE MatchLoop(text, j, Tail(ms),
                 [citations |-> Append(acc.citations, CitationRecord(text, m)),
                  seen_positions |-> acc.seen_positions \cup {position},
                  found_by |-> Append(acc.found_by, j)])

\* the outer loop over citation_patterns, from pattern number j on
RECURSIVE PatternLoop(_, _, _)
PatternLoop(text, j, acc) ==
  IF j > Len(citation_patterns) THEN acc
  ELSE PatternLoop(text, j + 1,
         MatchLoop(text, j, finditer(citation_patterns[j], text), acc))

\* the list extract_citations returns for a parser holding text, with what
\* its loops kept beside it.  On an empty text the method first reads the
\* document again; the text it then holds is the same and no pattern
\* matches the empty text.
extract_citations(text) ==
  PatternLoop(text, 1,
    [citations |-> <<>>, seen_positions |-> {}, found_by |-> <<>>])

(***************************************************************************)
(* PDFParser.extract_references_section and _parse_references.             *)
(***************************************************************************)
References_ == <<"R", "e", "f", "e", "r", "e", "n", "c", "e", "s">>

Bibliography_ ==
  <<"B", "i", "b", "l", "i", "o", "g", "r", "a", "p", "h", "y">>

WorksCited_ == <<"W", "o", "r", "k", "s", " ", "C", "i", "t", "e", "d">>

LiteratureCited_ ==
  <<"L", "i", "t", "e", "r", "a", "t", "u", "r", "e", " ",
    "C", "i", "t", "e", "d">>

\* the heading patterns, compiled with re.IGNORECASE
ref_patterns ==
  << \* (?:References|Bibliography|Works Cited|Literature Cited)(?:\s|\\n)
     IgnoreCase(
       Cat(<<Alt(<<Lit(References_), Lit(Bibliography_), Lit(WorksCited_),
                   Lit(LiteratureCited_)>>),
             Alt(<<WS, Lit(<<"\\", "n">>)>>)>>)),
     \* \d+\.\s+(?:References|Bibliography)
     IgnoreCase(
       Cat(<<Plus(Digit), Chr({"."}), Plus(WS),
             Alt(<<Lit(References_), Lit(Bibliography_)>>)>>)) >>

\* \n\s*(?:[A-Z][a-z]+\s+)+\n
next_section_pattern ==
  Cat(<<Chr({"\n"}), Star(WS),
        Plus(Cat(<<Chr(Upper), Plus(Chr(Lower)), Plus(WS)>>)),
        Chr({"\n"})>>)

\* \n\s*(?:\[\d+\]|\d+\.)\s+
numbering_pattern ==
  Cat(<<Chr({"\n"}), Star(WS),
        Alt(<<Cat(<<Chr({"["}), Plus(Digit), Chr({"]"})>>),
              Cat(<<Plus(Digit), Chr({"."})>>)>>),
        Plus(WS)>>)

\* references_text = matches[1], for the pieces of one heading pattern
SectionAfterHeading(matches) == matches[2]

\* the truncation at the next section heading (re.search: the first match)
TruncateAtNextSection(references_text) ==
  LET next_section == finditer(next_section_pattern, references_text)
  IN IF next_section # <<>>
     THEN Slice(references_text, 0, Head(next_section).start)
     ELSE references_text

\* the loop over ref_patterns from pattern number j on: the first pattern that
\* splits the text decides, and the loop breaks.  candidate is matches[1]
\* before the truncation, heading the number of the deciding pattern (0: none)
RECURSIVE HeadingLoop(_, _)
HeadingLoop(text, j) ==
  IF j > Len(ref_patterns)
  THEN [heading |-> 0, candidate |-> <<>>, references_text |-> <<>>]
  ELSE LET matches == split(ref_patterns[j], text)
       IN IF Len(matches) > 1
          THEN [heading |-> j,
                candidate |-> SectionAfterHeading(matches),
                references_text |->
                  TruncateAtNextSection(SectionAfterHeading(matches))]
          ELSE HeadingLoop(text, j + 1)

\* the non-empty stripped pieces, in order
RECURSIVE CleanRefs(_)
CleanRefs(refs) ==
  IF refs = <<>> THEN <<>>
  ELSE IF strip(Head(refs)) # <<>>
       THEN <<strip(Head(refs))>> \o CleanRefs(Tail(refs))
       ELSE CleanRefs(Tail(refs))

_parse_references(references_text) ==
  CleanRefs(split(numbering_pattern, references_text))

\* the result of extract_references_section on a parser holding text and
\* references: the return value and the new self.references.  On an empty
\* text no heading pattern splits, whether the document is read again or
\* not, and the method returns False.
extract_references_section(text, references) ==
  LET found == HeadingLoop(text, 1)
  IN IF found.references_text # <<>>
     THEN [ok |-> TRUE, found |-> found,
           references |-> _parse_references(found.references_text)]
     ELSE [ok |-> FALSE, found |-> found, references |-> references]

(***************************************************************************)
(* CitationAnalyzer (src/citation_analyzer.py).  A Python string that is   *)
(* not document text is a sequence of its parts (an f-string is the        *)
(* sequence of its literal and its formatted value); a dictionary is a     *)
(* record and d.update(e) is e @@ d.                                       *)
(***************************************************************************)
Update(d, e) == e @@ d

\* the dictionary merged when the analysis call, or the merge itself, raises
ErrorPlaceholder(message) ==
  [contribution |-> <<"Error during analysis: ", message>>,
   purpose |-> <<"Error">>,
   stance |-> <<"Error">>]

\* the dictionary merged when the response is not valid JSON
ParsePlaceholder(result) ==
  [contribution |-> <<"Unable to parse analysis">>,
   purpose |-> <<"Unknown">>,
   stance |-> <<"Unknown">>,
   raw_analysis |-> result]

\* What the analysis service can answer for one record.  raises: the call
\* raised, with message.  Otherwise content is the response text and json says
\* what json.loads makes of it: "object" (value is the parsed dictionary),
\* "scalar" (valid JSON that is no object: dict.update raises message) or
\* "invalid" (JSONDecodeError).
Responses ==
  { [raises |-> TRUE, message |-> <<"Request timed out.">>, json |-> "none",
     content |-> <<>>, value |-> <<>>],
    [raises |-> FALSE, message |-> <<>>, json |-> "object",
     content |-> <<"{contribution, purpose, stance}">>,
     value |-> [contribution |-> <<"Introduces the method">>,
                purpose |-> <<"background information">>,
                stance |-> <<"neutral">>]],
    [raises |-> FALSE, message |-> <<>>, json |-> "object",
     content |-> <<"{summary}">>,
     value |-> [summary |-> <<"A survey">>]],
    [raises |-> FALSE, message |-> <<>>, json |-> "object",
     content |-> <<"{citation, contribution, purpose, stance}">>,
     value |-> [citation |-> <<"Li (2019)">>,
                contribution |-> <<"Provides the dataset">>,
                purpose |-> <<"supporting evidence">>,
                stance |-> <<"agree">>]],
    [raises |-> FALSE, message |-> <<"'int' object is not iterable">>,
     json |-> "scalar", content |-> <<"42">>, value |-> <<>>],
    [raises |-> FALSE, message |-> <<>>, json |-> "invalid",
     content |-> <<"The citation supports the claim.">>, value |-> <<>>] }

\* analyze_citation: the record after the call, for one answer of the service
analyze_citation(citation, response) ==
  IF response.raises
  THEN Update(citation, ErrorPlaceholder(response.message))
  ELSE IF response.json = "invalid"
       THEN Update(citation, ParsePlaceholder(response.content))
       ELSE IF response.json = "object"
            THEN Update(citation, response.value)
            ELSE Update(citation, ErrorPlaceholder(response.message))

(***************************************************************************)
(* Document texts.                                                         *)
(***************************************************************************)
\* "(Li, 2019)"
AuthorYear ==
  <<"(", "L", "i", ",", " ", "2", "0", "1", "9", ")">>

\* "(Li et al., 2019)"
EtAlYear ==
  <<"(", "L", "i", " ", "e", "t", " ", "a", "l", ".", ",", " ", "2", "0",
    "1", "9", ")">>

\* "(Li and Wu, 2019a)"
TwoAuthors ==
  <<"(", "L", "i", " ", "a", "n", "d", " ", "W", "u", ",", " ", "2", "0",
    "1", "9", "a", ")">>

\* "(Li, 2019; Wu, 2020)"
SemicolonGroup ==
  <<"(", "L", "i", ",", " ", "2", "0", "1", "9", ";", " ", "W", "u", ",",
    " ", "2", "0", "2", "0", ")">>

\* "(Li, 2019, 2020)"
TwoYears ==
  <<"(", "L", "i", ",", " ", "2", "0", "1", "9", ",", " ", "2", "0", "2",
    "0", ")">>

\* "[1]"
Bracket ==
  <<"[", "1", "]">>

\* "[1, 2-3]"
BracketList ==
  <<"[", "1", ",", " ", "2", "-", "3", "]">>

\* "(1)"
ParenNumber ==
  <<"(", "1", ")">>

\* " as in "
Filler ==
  <<" ", "a", "s", " ", "i", "n", " ">>

\* "("
OpenParen ==
  <<"(">>

\* ""
NoBody ==
  <<>>

\* "...\n"
DotsBody ==
  <<".", ".", ".", "\n">>

\* "See references in [1].\n"
MentionBody ==
  <<"S", "e", "e", " ", "r", "e", "f", "e", "r", "e", "n", "c", "e", "s",
    " ", "i", "n", " ", "[", "1", "]", ".", "\n">>

\* "References\n"
ReferencesLine ==
  <<"R", "e", "f", "e", "r", "e", "n", "c", "e", "s", "\n">>

\* "2. References:\n"
NumberedHeading ==
  <<"2", ".", " ", "R", "e", "f", "e", "r", "e", "n", "c", "e", "s", ":",
    "\n">>

\* ""
NoTail ==
  <<>>

\* "Appendix\n..."
AppendixTail ==
  <<"A", "p", "p", "e", "n", "d", "i", "x", "\n", ".", ".", ".">>

\* "Appendix\n\n..."
AppendixBlankTail ==
  <<"A", "p", "p", "e", "n", "d", "i", "x", "\n", "\n", ".", ".", ".">>

\* "...\nReferences\n[1] Smith, J. Paper A.\n[2] Jones, K. Paper B.\n
\*  Appendix\n..."
SpecReferencesExample ==
  <<".", ".", ".", "\n", "R", "e", "f", "e", "r", "e", "n", "c", "e", "s",
    "\n", "[", "1", "]", " ", "S", "m", "i", "t", "h", ",", " ", "J", ".",
    " ", "P", "a", "p", "e", "r", " ", "A", ".", "\n", "[", "2", "]", " ",
    "J", "o", "n", "e", "s", ",", " ", "K", ".", " ", "P", "a", "p", "e",
    "r", " ", "B", ".", "\n", "A", "p", "p", "e", "n", "d", "i", "x", "\n",
    ".", ".", ".">>

\* "Recent work (Smith et al., 2019) shows X. Other studies [2] disagree."
SpecEndToEndExample ==
  <<"R", "e", "c", "e", "n", "t", " ", "w", "o", "r", "k", " ", "(", "S",
    "m", "i", "t", "h", " ", "e", "t", " ", "a", "l", ".", ",", " ", "2",
    "0", "1", "9", ")", " ", "s", "h", "o", "w", "s", " ", "X", ".", " ",
    "O", "t", "h", "e", "r", " ", "s", "t", "u", "d", "i", "e", "s", " ",
    "[", "2", "]", " ", "d", "i", "s", "a", "g", "r", "e", "e", ".">>

\* "No markers here."
PlainProse ==
  <<"N", "o", " ", "m", "a", "r", "k", "e", "r", "s", " ", "h", "e", "r",
    "e", ".">>

\* the most marker tokens in a generated text
MaxTokens == 2

\* the longest padding around a marker
MaxPad == 120

\* the most entries in a generated references section
MaxEntries == 2

\* the tokens that texts are put together from
MarkerTokens ==
  {AuthorYear, EtAlYear, SemicolonGroup, TwoYears, Bracket, OpenParen}

\* texts of the other marker shapes
OtherMarkerTexts ==
  {TwoAuthors, BracketList, ParenNumber, Filler,
   TwoAuthors \o Filler \o BracketList,
   ParenNumber \o Filler \o AuthorYear,
   Bracket \o ParenNumber \o BracketList}

\* the texts of at most n marker tokens
RECURSIVE TokenTexts(_)
TokenTexts(n) ==
  IF n = 0 THEN {<<>>}
  ELSE LET shorter == TokenTexts(n - 1)
       IN shorter \cup {t \o k : t \in shorter, k \in MarkerTokens}

Pad(n) == [i \in 1..n |-> "x"]

PadSizes == {0, 5, W - 1, W, W + 1, MaxPad}

\* a marker with padding before and after it
WindowTexts ==
  {Pad(a) \o m \o Pad(b) : a \in PadSizes, b \in PadSizes,
                           m \in {AuthorYear, Bracket}}

DigitSeq == <<"1", "2", "3", "4", "5", "6", "7", "8", "9">>

\* the text of the k-th reference entry: "Paper A.", "Paper B.", ...
EntryText(k) == <<"P", "a", "p", "e", "r", " ", UpperSeq[k], ".">>

\* the line of the k-th reference entry: "[k] Paper A.\n"
EntryLine(k) == <<"[", DigitSeq[k], "]", " ">> \o EntryText(k) \o <<"\n">>

\* the lines of the first n entries
RECURSIVE EntryLines(_)
EntryLines(n) == IF n = 0 THEN <<>> ELSE EntryLines(n - 1) \o EntryLine(n)

Bodies == {NoBody, DotsBody, MentionBody}

Headings == {ReferencesLine, NumberedHeading}

Tails ==
  {NoTail, AppendixTail, AppendixBlankTail, ReferencesLine \o EntryLine(9)}

\* body, heading line, n entry lines, tail
SectionText(body, heading, n, tail) ==
  body \o heading \o EntryLines(n) \o tail

SectionTexts ==
  {SectionText(b, h, n, t) : b \in Bodies, h \in Headings,
                             n \in 0..MaxEntries, t \in Tails}

\* the texts a PDFParser is given
ParserTexts ==
  TokenTexts(MaxTokens) \cup OtherMarkerTexts \cup WindowTexts
  \cup SectionTexts
  \cup {SpecReferencesExample, SpecEndToEndExample, PlainProse}

\* the texts the converter returns in a run of the decoder
Documents ==
  {<<>>, PlainProse, Bracket, SpecEndToEndExample, SpecReferencesExample,
   SectionText(MentionBody, ReferencesLine, 1, AppendixBlankTail)}

(***************************************************************************)
(* State.                                                                  *)
(***************************************************************************)
VARIABLES
  pc,          \* where the run is
  entry,       \* the operation that was called
  text,        \* parser.text
  citations,   \* the citation dictionaries, in the list extract_citations
               \* returned; analyze_citation updates them in place
  found_by,    \* for each of them, the number of the pattern that appended it
  found,       \* extract_references_section: whether it was called, what it
               \* returned and its locals
  references,  \* parser.references
  results,     \* batch_analyze_citations: the results list, each element the
               \* index in citations of the dictionary it refers to
  calls,       \* the calls made so far, in order, each with a number: the
               \* index of the record (analyze_citation), the status code
               \* (requests.get, 0 when it raised), 1 or 0 for a returned
               \* True or False (extract_text), else 0
  answers,     \* what the analysis service answered, call after call
  result,      \* the value returned to the caller: <<>> before the return
  paper_info   \* process_arxiv_paper: <<>> for None, else <<the metadata>>

vars ==
  <<pc, entry, text, citations, found_by, found, references, results, calls,
    answers, result, paper_info>>

Call(op, val) == [op |-> op, val |-> val]

NotCalled ==
  [called |-> FALSE, ok |-> FALSE, heading |-> 0, candidate |-> <<>>,
   references_text |-> <<>>]

ArxivIds == {<<"2106.12423">>}

\* what ArxivClient.search_paper returns for a paper it finds
PaperInfo(arxiv_id) ==
  [title |-> <<"A Paper">>, abstract |-> <<"We study.">>,
   authors |-> <<<<"Li">>, <<"Wu">>>>, year |-> <<"2021">>,
   arxiv_id |-> arxiv_id]

\* the status codes of the PDF fetch
StatusCodes == {200, 404, 503}

StatusText(code) ==
  CASE code = 200 -> "200" [] code = 404 -> "404" [] code = 503 -> "503"

Init ==
  /\ pc = "idle"
  /\ entry = "none"
  /\ text = <<>>
  /\ citations = <<>>
  /\ found_by = <<>>
  /\ found = NotCalled
  /\ references = <<>>
  /\ results = <<>>
  /\ calls = <<>>
  /\ answers = <<>>
  /\ result = <<>>
  /\ paper_info = <<>>

(***************************************************************************)
(* PDFParser methods on the state.                                         *)
(***************************************************************************)
\* citations = parser.extract_citations()
DoExtractCitations ==
  LET r == extract_citations(text)
  IN /\ citations' = r.citations
     /\ found_by' = r.found_by

\* parser.extract_references_section()
DoExtractReferences ==
  LET r == extract_references_section(text, references)
  IN /\ found' = [called |-> TRUE, ok |-> r.ok, heading |-> r.found.heading,
                  candidate |-> r.found.candidate,
                  references_text |-> r.found.references_text]
     /\ references' = r.references

(***************************************************************************)
(* CitationDecoder (src/src/main.py).                                      *)
(***************************************************************************)
\* where process_pdf returns to
AfterProcessPdf == IF entry = "process_arxiv_paper" THEN "attach" ELSE "done"

\* the caller calls process_pdf on a local file
ProcessPdf ==
  /\ pc = "idle"
  /\ entry' = "process_pdf"
  /\ calls' = Append(calls, Call("process_pdf", 0))
  /\ pc' = "extract_text"
  /\ UNCHANGED <<text, citations, found_by, found, references, results, answers,
                 result, paper_info>>

\* the caller calls process_arxiv_paper: the metadata lookup
SearchPaper ==
  /\ pc = "idle"
  /\ entry' = "process_arxiv_paper"
  /\ calls' = Append(calls, Call("search_paper", 0))
  /\ \E arxiv_id \in ArxivIds :
       \/ /\ paper_info' = <<>>
          /\ result' = <<[error |->
                <<"Could not find paper with arXiv ID: ", arxiv_id>>]>>
          /\ pc' = "done"
       \/ /\ paper_info' = <<PaperInfo(arxiv_id)>>
          /\ result' = result
          /\ pc' = "fetch"
  /\ UNCHANGED <<text, citations, found_by, found, references, results,
                 answers>>

\* requests.get(pdf_url) with the status code left unread: process_pdf is
\* called whatever the answer
FetchPdf_AnyStatus ==
  /\ pc = "fetch"
  /\ \/ /\ calls' = Append(calls, Call("requests.get", 0))
        /\ result' = <<[error |->
              <<"Error processing arXiv paper: ", "Connection refused">>]>>
        /\ pc' = "done"
     \/ \E status_code \in StatusCodes :
          /\ calls' = calls \o <<Call("requests.get", status_code),
                                 Call("process_pdf", 0)>>
          /\ result' = result
          /\ pc' = "extract_text"
  /\ UNCHANGED <<entry, text, citations, found_by, found, references,
                 results, answers, paper_info>>

\* requests.get(pdf_url): it raises, or answers with a status code
FetchPdf ==
  /\ pc = "fetch"
  /\ \/ /\ calls' = Append(calls, Call("requests.get", 0))
        /\ result' = <<[error |->
              <<"Error processing arXiv paper: ", "Connection refused">>]>>
        /\ pc' = "done"
     \/ \E status_code \in StatusCodes :
          IF status_code = 200
          THEN /\ calls' = calls \o <<Call("requests.get", status_code),
                                      Call("process_pdf", 0)>>
               /\ result' = result
               /\ pc' = "extract_text"
          ELSE /\ calls' = Append(calls, Call("requests.get", status_code))
               /\ result' = <<[error |->
                     <<"Failed to download PDF from arXiv: ",
                       StatusText(status_code)>>]>>
               /\ pc' = "done"
  /\ UNCHANGED <<entry, text, citations, found_by, found, references,
                 results, answers, paper_info>>

\* parser.extract_text(): the converter fails, or returns the document text
ExtractText ==
  /\ pc = "extract_text"
  /\ \/ /\ calls' = Append(calls, Call("extract_text", 0))
        /\ result' = <<[error |-> <<"Failed to extract text from PDF">>]>>
        /\ pc' = AfterProcessPdf
        /\ text' = text
     \/ /\ calls' = Append(calls, Call("extract_text", 1))
        /\ text' \in Documents
        /\ result' = result
        /\ pc' = "extract_citations"
  /\ UNCHANGED <<entry, citations, found_by, found, references, results,
                 answers, paper_info>>

\* citations = parser.extract_citations(); if not citations: return error
ExtractCitations ==
  /\ pc = "extract_citations"
  /\ calls' = Append(calls, Call("extract_citations", 0))
  /\ DoExtractCitations
  /\ IF citations' = <<>>
     THEN /\ result' = <<[error |-> <<"No citations found in the document">>]>>
          /\ pc' = AfterProcessPdf
     ELSE /\ result' = result
          /\ pc' = "extract_references"
  /\ UNCHANGED <<entry, text, found, references, results, answers, paper_info>>

\* parser.extract_references_section() with its False turned into an error
\* result of process_pdf
ExtractReferences_OrFail ==
  /\ pc = "extract_references"
  /\ calls' = Append(calls, Call("extract_references_section", 0))
  /\ DoExtractReferences
  /\ IF found'.ok
     THEN /\ result' = result
          /\ pc' = "analyze"
     ELSE /\ result' = <<[error |-> <<"No references found">>]>>
          /\ pc' = AfterProcessPdf
  /\ UNCHANGED <<entry, text, citations, found_by, results, answers,
                 paper_info>>

\* parser.extract_references_section(); parser.close()
ExtractReferences ==
  /\ pc = "extract_references"
  /\ calls' = Append(calls, Call("extract_references_section", 0))
  /\ DoExtractReferences
  /\ pc' = "analyze"
  /\ UNCHANGED <<entry, text, citations, found_by, results, answers, result,
                 paper_info>>

\* one iteration of the loop with the exception of the analysis call left
\* uncaught: the batch ends there
AnalyzeCitation_Aborting ==
  /\ pc = "analyze"
  /\ Len(results) < Len(citations)
  /\ LET i == Len(results) + 1
     IN /\ calls' = Append(calls, Call("analyze_citation", i))
        /\ \E response \in Responses :
             /\ answers' = Append(answers, response)
             /\ IF response.raises
                THEN /\ citations' = citations
                     /\ results' = results
                     /\ result' = <<[error |-> response.message]>>
                     /\ pc' = AfterProcessPdf
                ELSE /\ citations' =
                          [citations EXCEPT
                             ![i] = analyze_citation(citations[i], response)]
                     /\ results' = Append(results, i)
                     /\ result' = result
                     /\ pc' = pc
  /\ UNCHANGED <<entry, text, found_by, found, references, paper_info>>

\* one iteration of the loop of batch_analyze_citations
AnalyzeCitation ==
  /\ pc = "analyze"
  /\ Len(results) < Len(citations)
  /\ LET i == Len(results) + 1
     IN /\ calls' = Append(calls, Call("analyze_citation", i))
        /\ \E response \in Responses :
             /\ answers' = Append(answers, response)
             /\ citations' =
                  [citations EXCEPT
                     ![i] = analyze_citation(citations[i], response)]
        /\ results' = Append(results, i)
  /\ UNCHANGED <<pc, entry, text, found_by, found, references, result,
                 paper_info>>

\* the loop is over: process_pdf returns the analysed citations and the
\* references
ReturnAnalysis ==
  /\ pc = "analyze"
  /\ Len(results) = Len(citations)
  /\ result' =
       <<[citations |-> [k \in 1..Len(results) |-> citations[results[k]]],
         references |-> references]>>
  /\ pc' = AfterProcessPdf
  /\ UNCHANGED <<entry, text, citations, found_by, found, references,
                 results, answers, calls, paper_info>>

\* result.update({title, authors, abstract, year}); return result
AttachMetadata ==
  /\ pc = "attach"
  /\ calls' = Append(calls, Call("update", 0))
  /\ result' = <<Update(result[1],
                   [title |-> paper_info[1].title,
                    authors |-> paper_info[1].authors,
                    abstract |-> paper_info[1].abstract,
                    year |-> paper_info[1].year])>>
  /\ pc' = "done"
  /\ UNCHANGED <<entry, text, citations, found_by, found, references,
                 results, answers, paper_info>>

Next ==
  \/ ProcessPdf
  \/ SearchPaper
  \/ FetchPdf
  \/ ExtractText
  \/ ExtractCitations
  \/ ExtractReferences
  \/ AnalyzeCitation
  \/ ReturnAnalysis
  \/ AttachMetadata

Spec == Init /\ [][Next]_vars

(***************************************************************************)
(* A PDFParser on its own: it holds a text, and its two extraction methods *)
(* are called, each once, in either order.                                 *)
(***************************************************************************)
Called(op) == \E k \in 1..Len(calls) : calls[k].op = op

InitParser ==
  /\ pc = "parser"
  /\ entry = "parser"
  /\ text \in ParserTexts
  /\ citations = <<>>
  /\ found_by = <<>>
  /\ found = NotCalled
  /\ references = <<>>
  /\ results = <<>>
  /\ calls = <<>>
  /\ answers = <<>>
  /\ result = <<>>
  /\ paper_info = <<>>

ParserExtractCitations ==
  /\ pc = "parser"
  /\ ~Called("extract_citations")
  /\ calls' = Append(calls, Call("extract_citations", 0))
  /\ DoExtractCitations
  /\ UNCHANGED <<pc, entry, text, found, references, results, answers, result,
                 paper_info>>

ParserExtractReferences ==
  /\ pc = "parser"
  /\ ~Called("extract_references_section")
  /\ calls' = Append(calls, Call("extract_references_section", 0))
  /\ DoExtractReferences
  /\ UNCHANGED <<pc, entry, text, citations, found_by, results, answers, result,
                 paper_info>>

NextParser ==
  \/ ParserExtractCitations
  \/ ParserExtractReferences

SpecParser == InitParser /\ [][NextParser]_vars

(***************************************************************************)
(* Properties of extract_citations, checked on SpecParser.                 *)
(***************************************************************************)
\* s occurs in t at offset o
OccursAt(s, t, o) ==
  /\ o >= 0
  /\ o + Len(s) <= Len(t)
  /\ \A i \in 1..Len(s) : t[o + i] = s[i]

\* the offsets of t at which the first character of s stands
FirstCharAt(s, t) == {o \in 0..(Len(t) - Len(s)) : t[o + 1] = s[1]}

IsSubstring(s, t) == s = <<>> \/ \E o \in FirstCharAt(s, t) : OccursAt(s, t, o)

\* every <<j, span>> such that pattern number j has a match with this span
PatternSpans ==
  UNION {{<<j, <<m.start, m.end>>>> :
            m \in Range(finditer(citation_patterns[j], text))} :
           j \in 1..Len(citation_patterns)}

\* the numbers of the patterns that have a match with this span
PatternsMatching(spans, position) ==
  {j \in 1..Len(citation_patterns) : <<j, position>> \in spans}

\* C1: every record extract_citations produces has a position (start, end)
\* with 0 <= start < end <= len(text), and its citation is text[start:end].
C1_SpanWithinText ==
  pc = "parser" =>
    \A k \in 1..Len(citations) :
       LET start == citations[k].position[1]
           end == citations[k].position[2]
       IN /\ 0 <= start
          /\ start < end
          /\ end <= Len(text)
          /\ Len(citations[k].citation) = end - start
          /\ OccursAt(citations[k].citation, text, start)

\* C1 witness: extract_citations returned two records for a text.
C1_Witness ==
  pc = "parser" /\ Called("extract_citations") /\ Len(citations) >= 2

\* C2: no two records have the same (start, end) span, each record was
\* appended by the earliest pattern that has a match with its span, and the
\* text "[1]", which both bracket patterns match, gives exactly one record.
C2_OneRecordPerSpan ==
  pc = "parser" =>
    /\ \A k, l \in 1..Len(citations) :
         citations[k].position = citations[l].position => k = l
    /\ citations # <<>> =>
         LET spans == PatternSpans
         IN \A k \in 1..Len(citations) :
               found_by[k] = Min(PatternsMatching(spans, citations[k].position))
    /\ (text = Bracket /\ Called("extract_citations")) => Len(citations) = 1

\* C2 witness: the single record of the text "[1]", whose span two patterns
\* match.
C2_Witness ==
  /\ pc = "parser"
  /\ text = Bracket
  /\ Len(citations) = 1
  /\ Cardinality(PatternsMatching(PatternSpans, citations[1].position)) = 2

\* C3 as claimed: the context of every record has at most 2 x W = 200
\* characters and contains the marker text.
C3_WindowAtMostTwoW ==
  pc = "parser" =>
    \A k \in 1..Len(citations) :
       /\ Len(citations[k].context) <= 2 * W
       /\ IsSubstring(citations[k].citation, citations[k].context)

\* C3 amended: the context of every record has at most 2 x W characters plus
\* the length of the marker, and contains the marker text.
C3_WindowAtMostTwoWPlusMarker ==
  pc = "parser" =>
    \A k \in 1..Len(citations) :
       /\ Len(citations[k].context)
            <= 2 * W + (citations[k].position[2] - citations[k].position[1])
       /\ IsSubstring(citations[k].citation, citations[k].context)

\* C3 witness: a marker with W characters or more on both sides, whose
\* context is the marker and W characters on each side.
C3_Witness ==
  /\ pc = "parser"
  /\ \E k \in 1..Len(citations) :
       /\ citations[k].position[1] >= W
       /\ citations[k].position[2] + W <= Len(text)
       /\ Len(citations[k].context) = 2 * W + Len(citations[k].citation)

\* C4: the context of a match (start, end) is the text from offset
\* start - 100, or from offset 0 when start < 100, up to offset end + 100, or
\* up to the end of the text when fewer than 100 characters follow the match.
C4_WindowClipped ==
  pc = "parser" =>
    \A k \in 1..Len(citations) :
       LET start == citations[k].position[1]
           end == citations[k].position[2]
           from == IF start < 100 THEN 0 ELSE start - 100
           to == IF Len(text) - end < 100 THEN Len(text) ELSE end + 100
       IN /\ Len(citations[k].context) = to - from
          /\ OccursAt(citations[k].context, text, from)

\* C4 witness: a match at offset 5 whose context starts at offset 0, and
\* which has more than 100 characters after it.
C4_Witness ==
  /\ pc = "parser"
  /\ \E k \in 1..Len(citations) :
       /\ citations[k].position[1] = 5
       /\ Len(text) - citations[k].position[2] > 100
       /\ Len(citations[k].context) = citations[k].position[2] + 100

(***************************************************************************)
(* Properties of extract_references_section, checked on SpecParser.        *)
(***************************************************************************)
\* the number of the first heading pattern that matches the text, 0 if none
FirstHeadingPattern ==
  LET hit == {j \in 1..Len(ref_patterns) :
                finditer(ref_patterns[j], text) # <<>>}
  IN IF hit = {} THEN 0 ELSE Min(hit)

\* C5 as claimed: the first heading pattern that matches decides, and the
\* candidate blob is everything after its first occurrence, up to the end of
\* the text.
C5_BlobIsRestOfText ==
  (pc = "parser" /\ found.called) =>
    /\ found.heading = FirstHeadingPattern
    /\ found.heading # 0 =>
         found.candidate =
           Slice(text, Head(finditer(ref_patterns[found.heading], text)).end,
                 Len(text))

\* the entries a references section with n entry lines is said to give
RECURSIVE EntryTexts(_)
EntryTexts(n) ==
  IF n = 0 THEN <<>> ELSE Append(EntryTexts(n - 1), EntryText(n))

\* "Smith, J. Paper A."
SmithEntry ==
  <<"S", "m", "i", "t", "h", ",", " ", "J", ".", " ", "P", "a", "p", "e",
    "r", " ", "A", ".">>

\* "Jones, K. Paper B."
JonesEntry ==
  <<"J", "o", "n", "e", "s", ",", " ", "K", ".", " ", "P", "a", "p", "e",
    "r", " ", "B", ".">>

\* C6 as claimed: for a body, a line "References", n entry lines "[k] ..."
\* and then a line "Appendix" followed by more content, the references are
\* the n entry texts without their markers, and nothing of the appendix.
C6_EntriesWithoutMarkers ==
  (pc = "parser" /\ found.called) =>
    /\ \A body \in {NoBody, DotsBody}, n \in 1..MaxEntries,
          tail \in {AppendixTail, AppendixBlankTail} :
         text = SectionText(body, ReferencesLine, n, tail) =>
           references = EntryTexts(n)
    /\ text = SpecReferencesExample => references = <<SmithEntry, JonesEntry>>

\* C7 as claimed: a parenthetical group of several author-year pairs,
\* "(Li, 2019; Wu, 2020)", gives a record whose marker text is the group.
C7_SemicolonGroupMatched ==
  (pc = "parser" /\ Called("extract_citations")) =>
    \A o \in FirstCharAt(SemicolonGroup, text) :
       OccursAt(SemicolonGroup, text, o) =>
         \E k \in 1..Len(citations) :
            /\ citations[k].position = <<o, o + Len(SemicolonGroup)>>
            /\ citations[k].citation = SemicolonGroup

\* C7 amended: a parenthetical group of an author list followed by several
\* years separated by commas, "(Li, 2019, 2020)", gives a record whose
\* marker text is the group; no record holds a semicolon, so a group whose
\* author-year pairs are separated by semicolons gives no record.
C7_SeveralYearsMatched ==
  (pc = "parser" /\ Called("extract_citations")) =>
    /\ \A o \in FirstCharAt(TwoYears, text) :
         OccursAt(TwoYears, text, o) =>
           \E k \in 1..Len(citations) :
              /\ citations[k].position = <<o, o + Len(TwoYears)>>
              /\ citations[k].citation = TwoYears
    /\ \A k \in 1..Len(citations) : ";" \notin Range(citations[k].citation)
    /\ text = SemicolonGroup => citations = <<>>

\* C7 witness: a text that holds both groups; only the one with the comma
\* separated years is a record.
C7_Witness ==
  /\ pc = "parser"
  /\ text = SemicolonGroup \o TwoYears
  /\ Len(citations) = 1
  /\ citations[1].citation = TwoYears

(***************************************************************************)
(* Properties of CitationDecoder and batch_analyze_citations, checked on   *)
(* Spec.                                                                   *)
(***************************************************************************)
\* process_pdf has returned, to the caller or to process_arxiv_paper
ProcessPdfReturned ==
  /\ Called("process_pdf")
  /\ \/ pc = "attach"
     \/ pc = "done" /\ entry = "process_pdf"
     \/ pc = "done" /\ Called("update")

\* the text extraction failed
ExtractTextFailed == \E k \in 1..Len(calls) : calls[k] = Call("extract_text", 0)

\* no pattern matches anywhere in the text
NoMarkers ==
  \A j \in 1..Len(citation_patterns) :
     finditer(citation_patterns[j], text) = <<>>

\* C8: process_pdf returns an error exactly when the text extraction failed
\* ('Failed to extract text from PDF', extract_citations not called) or the
\* text has no marker ('No citations found in the document',
\* analyze_citation not called).  In every other case it returns the
\* analysed citations and parser.references, which is the empty list when
\* no references section was found.
C8_ErrorInTwoCasesOnly ==
  ProcessPdfReturned =>
    LET returned == result[1]
    IN /\ "error" \in DOMAIN returned <=> (ExtractTextFailed \/ NoMarkers)
       /\ ExtractTextFailed =>
            /\ returned.error = <<"Failed to extract text from PDF">>
            /\ ~Called("extract_citations")
       /\ (~ExtractTextFailed /\ NoMarkers) =>
            /\ returned.error = <<"No citations found in the document">>
            /\ Called("extract_citations")
            /\ ~Called("analyze_citation")
       /\ (~ExtractTextFailed /\ ~NoMarkers) =>
            /\ {"citations", "references"} \subseteq DOMAIN returned
            /\ Len(returned.citations) = Len(citations)
            /\ \A k \in 1..Len(citations) :
                  returned.citations[k] = citations[k]
            /\ returned.references = references
            /\ (found.heading = 0 \/ ~found.ok) => returned.references = <<>>

\* C8 witness: process_pdf has returned the analysed citations of a text
\* that has no references heading, with an empty references list.
C8_Witness ==
  /\ ProcessPdfReturned
  /\ found.called
  /\ found.heading = 0
  /\ "error" \notin DOMAIN result[1]
  /\ Len(result[1].citations) = 2
  /\ result[1].references = <<>>

\* the calls of process_arxiv_paper come in the order search_paper,
\* requests.get, process_pdf, update; requests.get only for a paper that was
\* found, process_pdf only after a fetch that answered 200
StagesInOrder ==
  /\ calls # <<>> => calls[1].op = "search_paper"
  /\ \A k \in 1..Len(calls) :
       /\ calls[k].op = "search_paper" => k = 1
       /\ calls[k].op = "requests.get" => (k = 2 /\ paper_info # <<>>)
       /\ calls[k].op = "process_pdf" =>
            (k = 3 /\ calls[2] = Call("requests.get", 200))
       /\ calls[k].op = "update" =>
            (k = Len(calls) /\ k > 3 /\ pc = "done")

\* the lookup found no paper: the error, and nothing fetched
LookupFailureEndsRun ==
  (pc = "done" /\ paper_info = <<>>) =>
    /\ Len(calls) = 1
    /\ \E arxiv_id \in ArxivIds :
         result = <<[error |->
                       <<"Could not find paper with arXiv ID: ", arxiv_id>>]>>

\* the fetch answered with another status than 200: the error, and
\* process_pdf not called
BadStatusEndsRun ==
  (pc = "done" /\ Len(calls) >= 2 /\ calls[2].val \in StatusCodes \ {200}) =>
    /\ Len(calls) = 2
    /\ result = <<[error |-> <<"Failed to download PDF from arXiv: ",
                               StatusText(calls[2].val)>>]>>

\* the four metadata fields are those of the paper found
MetadataAttached ==
  /\ {"title", "authors", "abstract", "year"} \subseteq DOMAIN result[1]
  /\ result[1].title = paper_info[1].title
  /\ result[1].authors = paper_info[1].authors
  /\ result[1].abstract = paper_info[1].abstract
  /\ result[1].year = paper_info[1].year

\* C9 as claimed: the stages run in order, and a failed stage ends the run
\* with an error without any later stage being started: no fetch after a
\* failed lookup, no process_pdf after a fetch that answered another status
\* than 200, and no metadata attached to the result of a failed process_pdf.
C9_FailedStageEndsRun ==
  entry = "process_arxiv_paper" =>
    /\ StagesInOrder
    /\ LookupFailureEndsRun
    /\ BadStatusEndsRun
    /\ Called("update") =>
         /\ MetadataAttached
         /\ "error" \notin DOMAIN result[1]
         /\ "citations" \in DOMAIN result[1]

\* C9 amended: the stages run in order; a failed lookup ends the run with
\* 'Could not find paper' and no fetch; a fetch that answers another status
\* than 200 ends it with 'Failed to download PDF' and one that raises with
\* 'Error processing arXiv paper', process_pdf not called; after a fetch
\* that answered 200 process_pdf is called and the metadata is attached to
\* whatever it returned, its error result included.
C9_MetadataOnAnyProcessPdfResult ==
  entry = "process_arxiv_paper" =>
    /\ StagesInOrder
    /\ LookupFailureEndsRun
    /\ BadStatusEndsRun
    /\ (pc = "done" /\ Len(calls) >= 2 /\ calls[2].val = 0) =>
         /\ Len(calls) = 2
         /\ result = <<[error |-> <<"Error processing arXiv paper: ",
                                    "Connection refused">>]>>
    /\ (pc = "done" /\ Called("process_pdf")) =>
         /\ Called("update")
         /\ MetadataAttached
         /\ "error" \in DOMAIN result[1] <=> (ExtractTextFailed \/ NoMarkers)
         /\ "error" \notin DOMAIN result[1] =>
              /\ result[1].citations = citations
              /\ result[1].references = references

\* C9 witness: process_pdf failed after a fetch that answered 200, and the
\* result returned has both the error and the title of the paper.
C9_Witness ==
  /\ entry = "process_arxiv_paper"
  /\ pc = "done"
  /\ Called("update")
  /\ "error" \in DOMAIN result[1]
  /\ "title" \in DOMAIN result[1]

\* the analyze_citation calls made so far
AnalyzeCalls == SelectSeq(calls, LAMBDA c : c.op = "analyze_citation")

\* C10: the records are analysed once each, in the order of the list, and
\* the k-th result is the k-th record; a record whose analysis call raised
\* has contribution 'Error during analysis: <message>', purpose 'Error' and
\* stance 'Error'; when the batch has returned every record has been
\* analysed, whichever calls raised.
C10_BatchNeverAborted ==
  /\ Len(AnalyzeCalls) = Len(results)
  /\ Len(answers) = Len(results)
  /\ Len(results) <= Len(citations)
  /\ \A k \in 1..Len(results) :
       /\ AnalyzeCalls[k].val = k
       /\ results[k] = k
       /\ answers[k].raises =>
            /\ citations[k].contribution =
                 <<"Error during analysis: ", answers[k].message>>
            /\ citations[k].purpose = <<"Error">>
            /\ citations[k].stance = <<"Error">>
  /\ (ProcessPdfReturned /\ Called("extract_references_section")) =>
       /\ Len(results) = Len(citations)
       /\ "citations" \in DOMAIN result[1]
       /\ Len(result[1].citations) = Len(citations)
       /\ \A k \in 1..Len(citations) :
             result[1].citations[k] = citations[results[k]]

\* C10 witness: a batch of two records has returned; the call for the first
\* record raised and the second record was analysed after it.
C10_Witness ==
  /\ ProcessPdfReturned
  /\ Len(citations) = 2
  /\ Len(results) = 2
  /\ answers[1].raises
  /\ ~answers[2].raises
  /\ citations[1].purpose = <<"Error">>
  /\ "purpose" \in DOMAIN citations[2]
  /\ citations[2].purpose # <<"Error">>

(***************************************************************************)
(* Properties of analyze_citation, checked on Spec.                        *)
(***************************************************************************)
\* the response is a JSON object with the three keys the prompt asks for
Conforms(response) ==
  /\ ~response.raises
  /\ response.json = "object"
  /\ {"contribution", "purpose", "stance"} \subseteq DOMAIN response.value

\* C11 as claimed: a record whose response does not conform to
\* {contribution, purpose, stance} has contribution 'Unable to parse
\* analysis', purpose 'Unknown', stance 'Unknown' and the response text in
\* raw_analysis; every analysed record has contribution, purpose and stance.
C11_NonConformingDegraded ==
  \A k \in 1..Len(results) :
     /\ (~answers[k].raises /\ ~Conforms(answers[k])) =>
          /\ {"contribution", "purpose", "stance", "raw_analysis"}
               \subseteq DOMAIN citations[k]
          /\ citations[k].contribution = <<"Unable to parse analysis">>
          /\ citations[k].purpose = <<"Unknown">>
          /\ citations[k].stance = <<"Unknown">>
          /\ citations[k].raw_analysis = answers[k].content
     /\ {"contribution", "purpose", "stance"} \subseteq DOMAIN citations[k]

\* C12 as claimed: a call of analyze_citation leaves the citation, context
\* and position of every record as they were before it, whatever the
\* service answers.
C12_ExtractionFieldsKept ==
  [][pc = "analyze" =>
       /\ Len(citations') = Len(citations)
       /\ \A k \in 1..Len(citations) :
             /\ citations'[k].citation = citations[k].citation
             /\ citations'[k].context = citations[k].context
             /\ citations'[k].position = citations[k].position]_vars

(***************************************************************************)
(* Spans of different records, checked on SpecParser.                      *)
(***************************************************************************)
\* C13: the spans of any two distinct records of extract_citations do not
\* overlap: one ends at or before the start of the other.
C13_SpansDisjoint ==
  pc = "parser" =>
    \A k, l \in 1..Len(citations) :
       k # l =>
         \/ citations[k].position[2] <= citations[l].position[1]
         \/ citations[l].position[2] <= citations[k].position[1]

\* C13 witness: two records next to each other, one of them with a span
\* that several patterns match and that was kept once.
C13_Witness ==
  /\ pc = "parser"
  /\ text = AuthorYear \o Bracket
  /\ Len(citations) = 2
  /\ Cardinality(PatternSpans) > 2
  /\ citations[1].position[2] = citations[2].position[1]

====
